---- MODULE Spec2Model ----
(***************************************************************************)
(* Model of qtui2pyi.py: the stub generator that turns a Qt Designer ui    *)
(* file into a pyi file.  Modelled are the import resolver                  *)
(* (SelectiveQtImporter.get_import_lines), the document queries of          *)
(* UIDesingerFile, the staleness check, the output redirection and main.    *)
(*                                                                          *)
(* Abstractions:                                                            *)
(*  - a ui document is the sequence of its elements in textual order, each  *)
(*    with its nesting depth; the tree minidom builds from it is recovered  *)
(*    by childNodes and walked as getElementsByTagName walks it;            *)
(*  - a text line is a record; the first line of a file additionally        *)
(*    carries its characters as tokens, where "M" stands for the literal    *)
(*    text "[mtime:", "x" for any run of other characters;                  *)
(*  - time is counted in tenths of a second since the epoch (st_mtime is    *)
(*    never negative here, so its repr is a plain decimal);                 *)
(*  - strings are compared by code point, as Python's sorted() does.        *)
(***************************************************************************)
EXTENDS Integers, Sequences, FiniteSets, TLC

VARIABLES
    src,          \* the source ui file: [exists, mtime, doc]
    dest,         \* the destination pyi file: [exists, lines]
    cache,        \* SelectiveQtImporter.cache: module group -> class names
    pc,           \* position of the running operation
    cfg,          \* main's locals after argument parsing
    pyi,          \* the UIDesingerFile object: [alive, fh, buf]
    openHandles,  \* number of output file handles currently open
    stdout,       \* lines written to sys.stdout by the current run
    exitcode,     \* exit code of the process (NoCode while running)
    exc,          \* exception raised by the last operation (NoExc if none)
    hist,         \* bookkeeping about the current and the previous run
    clss,         \* argument of get_import_lines
    star,         \* argument star_imports
    result        \* value returned by the last pure operation

vars == <<src, dest, cache, pc, cfg, pyi, openHandles, stdout, exitcode, exc,
          hist, clss, star, result>>

(***************************************************************************)
(* Bounds                                                                   *)
(***************************************************************************)
MaxNodes == 3
MaxHeaderLen == 4
MaxMtime == 25
MaxArgs == 3
MaxCalls == 2

NoneVal == "None"
NoExc == "NoExc"
NoCode == -1

(***************************************************************************)
(* Strings.  CodePoints gives the characters of every class name that       *)
(* occurs in the model; StrLess is Python's str.__lt__.                     *)
(***************************************************************************)
ClassNames == {"", "Bar", "Foo", "QAction", "QLCDNumber", "QLabel", "QWidget"}

CodePoints(s) ==
    CASE s = ""           -> <<>>
      [] s = "Bar"        -> <<66, 97, 114>>
      [] s = "Foo"        -> <<70, 111, 111>>
      [] s = "QAction"    -> <<81, 65, 99, 116, 105, 111, 110>>
      [] s = "QLCDNumber" -> <<81, 76, 67, 68, 78, 117, 109, 98, 101, 114>>
      [] s = "QLabel"     -> <<81, 76, 97, 98, 101, 108>>
      [] s = "QWidget"    -> <<81, 87, 105, 100, 103, 101, 116>>

RECURSIVE SeqLess(_, _)
SeqLess(a, b) ==
    IF b = <<>> THEN FALSE
    ELSE IF a = <<>> THEN TRUE
    ELSE IF Head(a) # Head(b) THEN Head(a) < Head(b)
    ELSE SeqLess(Tail(a), Tail(b))

StrLess(a, b) == SeqLess(CodePoints(a), CodePoints(b))

\* sorted(S) for a set of strings
RECURSIVE sorted(_)
sorted(S) ==
    IF S = {} THEN <<>>
    ELSE LET m == CHOOSE x \in S : \A y \in S \ {x} : StrLess(x, y)
         IN  <<m>> \o sorted(S \ {m})

Range(s) == {s[i] : i \in 1..Len(s)}

(***************************************************************************)
(* Text lines.  Every line is a record of the same shape.                   *)
(***************************************************************************)
Line(kind, text, module, names, name, type) ==
    [kind |-> kind, text |-> text, module |-> module, names |-> names,
     name |-> name, type |-> type]

\* a line without an "[mtime:" marker has the text <<"x">>
Plain == <<"x">>

StarLine(pkg, m) == Line("star", Plain, <<pkg, m>>, <<>>, "", "")

ImportLine(pkg, m, names) == Line("import", Plain, <<pkg, m>>, names, "", "")

UnknownLine(names) == Line("unknown", Plain, <<>>, names, "", "")

(***************************************************************************)
(* SelectiveQtImporter                                                      *)
(***************************************************************************)
MODULES == <<"QtCore", "QtGui", "QtWidgets">>

\* self.cache.get(m_str, []) as a set
CacheGet(c, m) == IF m \in DOMAIN c THEN c[m] ELSE {}

\* SelectiveFrom without "all_classes.difference_update(matched)"
RECURSIVE SelectiveFromKeep(_, _, _, _)
SelectiveFromKeep(i, all_classes, c, pkg) ==
    IF i > Len(MODULES)
    THEN LET known == UNION {CacheGet(c, MODULES[g]) : g \in 1..Len(MODULES)}
         IN  IF all_classes \ known # {}
             THEN <<UnknownLine(sorted(all_classes \ known))>> ELSE <<>>
    ELSE LET matched == all_classes \cap CacheGet(c, MODULES[i])
         IN  IF matched # {}
             THEN <<ImportLine(pkg, MODULES[i], sorted(matched))>>
                  \o SelectiveFromKeep(i + 1, all_classes, c, pkg)
             ELSE SelectiveFromKeep(i + 1, all_classes, c, pkg)

\* SelectiveFrom without the line for the names left over
RECURSIVE SelectiveFromSilent(_, _, _, _)
SelectiveFromSilent(i, all_classes, c, pkg) ==
    IF i > Len(MODULES) THEN <<>>
    ELSE LET matched == all_classes \cap CacheGet(c, MODULES[i])
         IN  IF matched # {}
             THEN <<ImportLine(pkg, MODULES[i], sorted(matched))>>
                  \o SelectiveFromSilent(i + 1, all_classes \ matched, c, pkg)
             ELSE SelectiveFromSilent(i + 1, all_classes, c, pkg)

\* the selective loop over MODULES[i..], all_classes being the names left
RECURSIVE SelectiveFrom(_, _, _, _)
SelectiveFrom(i, all_classes, c, pkg) ==
    IF i > Len(MODULES)
    THEN IF all_classes # {} THEN <<UnknownLine(sorted(all_classes))>> ELSE <<>>
    ELSE LET matched == all_classes \cap CacheGet(c, MODULES[i])
         IN  IF matched # {}
             THEN <<ImportLine(pkg, MODULES[i], sorted(matched))>>
                  \o SelectiveFrom(i + 1, all_classes \ matched, c, pkg)
             ELSE SelectiveFrom(i + 1, all_classes, c, pkg)

\* get_import_lines whose star mode skips the groups none of the classes is in
get_import_lines_matched(cl, star_imports, c, pkg) ==
    IF star_imports
    THEN LET groups == SelectSeq(MODULES, LAMBDA m : cl \cap CacheGet(c, m) # {})
         IN  [i \in 1..Len(groups) |-> StarLine(pkg, groups[i])]
    ELSE SelectiveFrom(1, cl, c, pkg)

get_import_lines(cl, star_imports, c, pkg) ==
    IF star_imports
    THEN [i \in 1..Len(MODULES) |-> StarLine(pkg, MODULES[i])]
    ELSE SelectiveFrom(1, cl, c, pkg)

(***************************************************************************)
(* The ui document.  doc = [wf, root, nodes]: wf says whether the file is   *)
(* well-formed XML, root is the tag of the document element, nodes are the  *)
(* elements below it in textual order: [tag, name, class, depth].  An       *)
(* element is identified by its index in nodes.                             *)
(***************************************************************************)
DepthOf(nodes, p) == IF p = 0 THEN 0 ELSE nodes[p].depth

\* the indices in lo..hi that satisfy P, in ascending order
RECURSIVE Ascending(_, _, _)
Ascending(lo, hi, S) ==
    IF lo > hi THEN <<>>
    ELSE (IF lo \in S THEN <<lo>> ELSE <<>>) \o Ascending(lo + 1, hi, S)

\* node.childNodes of element p (0 is the document element)
childNodes(nodes, p) ==
    LET d == DepthOf(nodes, p)
        kids == {j \in (p + 1)..Len(nodes) :
                    /\ nodes[j].depth = d + 1
                    /\ \A k \in (p + 1)..j : nodes[k].depth > d}
    IN  Ascending(p + 1, Len(nodes), kids)

\* minidom's _get_elements_by_tagName_helper over the list kids
RECURSIVE TagNameHelper(_, _, _)
TagNameHelper(nodes, kids, tag) ==
    IF kids = <<>> THEN <<>>
    ELSE LET n == Head(kids)
         IN  (IF nodes[n].tag = tag THEN <<n>> ELSE <<>>)
             \o TagNameHelper(nodes, childNodes(nodes, n), tag)
             \o TagNameHelper(nodes, Tail(kids), tag)

\* self.root_element.getElementsByTagName(tag)
getElementsByTagName(nodes, tag) == TagNameHelper(nodes, childNodes(nodes, 0), tag)

RECURSIVE subnodes(_, _)
subnodes(nodes, tagnames) ==
    IF tagnames = <<>> THEN <<>>
    ELSE getElementsByTagName(nodes, Head(tagnames)) \o subnodes(nodes, Tail(tagnames))

Ok(v) == [exc |-> NoExc, val |-> v]

Raise(e) == [exc |-> e, val |-> NoneVal]

\* ui_top_widget that returns the last widget of the list
ui_top_widget_last(nodes) ==
    LET found == getElementsByTagName(nodes, "widget")
    IN  IF Len(found) = 0 THEN Raise("ValueError") ELSE Ok(found[Len(found)])

\* ui_top_widget: the element, or ValueError
ui_top_widget(nodes) ==
    LET found == getElementsByTagName(nodes, "widget")
    IN  IF Len(found) = 0 THEN Raise("ValueError") ELSE Ok(found[1])

\* the loop of get_elements over the elements els, names being the set so far
RECURSIVE GetElementsLoop(_, _, _)
GetElementsLoop(nodes, els, names) ==
    IF els = <<>> THEN Ok(<<>>)
    ELSE LET w_name == nodes[Head(els)].name
         IN  IF w_name \in names THEN Raise("NameError")
             ELSE LET rest == GetElementsLoop(nodes, Tail(els), names \cup {w_name})
                  IN  IF rest.exc # NoExc THEN rest
                      ELSE Ok(<<Head(els)>> \o rest.val)

\* get_elements that looks at the widgets only
get_elements_widgets(nodes) ==
    GetElementsLoop(nodes, subnodes(nodes, <<"widget">>), {})

\* list(self.get_elements())
get_elements(nodes) ==
    GetElementsLoop(nodes, subnodes(nodes, <<"widget", "layout", "action">>), {})

\* w_class taken from the class attribute whatever the tag
w_class_attr(n) == n.class

\* get_name_type_mapping, lines 213-216: the type name of element n
w_class(n) == IF n.tag = "action" THEN "QAction" ELSE n.class

\* get_name_type_mapping: the dict as the sequence of its items in insertion
\* order, each [el, name, type] (el records which element made the entry)
RECURSIVE MappingLoop(_, _, _)
MappingLoop(nodes, els, res) ==
    IF els = <<>> THEN Ok(res)
    ELSE LET n == nodes[Head(els)]
         IN  IF \E i \in 1..Len(res) : res[i].name = n.name
             THEN Raise("NameError")
             ELSE MappingLoop(nodes, Tail(els),
                              Append(res, [el |-> Head(els), name |-> n.name,
                                           type |-> w_class(n)]))

get_name_type_mapping(nodes, els) == MappingLoop(nodes, els, <<>>)

\* without_ui_top_widget, top being the element ui_top_widget returned
without_ui_top_widget(els, top) == SelectSeq(els, LAMBDA e : e # top)

(***************************************************************************)
(* The header line and the staleness check                                  *)
(***************************************************************************)
DigitChars == <<"0", "1", "2", "3", "4", "5", "6", "7", "8", "9">>

Digits == Range(DigitChars)

DigitVal(ch) == (CHOOSE i \in 1..10 : DigitChars[i] = ch) - 1

\* the decimal digits of the natural number n
RECURSIVE NatDigits(_)
NatDigits(n) ==
    IF n < 10 THEN <<DigitChars[n + 1]>>
    ELSE Append(NatDigits(n \div 10), DigitChars[(n % 10) + 1])

\* repr() of the float that is t tenths of a second: "2.5", "13.0"
FloatRepr(t) == NatDigits(t \div 10) \o <<".">> \o <<DigitChars[(t % 10) + 1]>>

\* the first line write_pyi writes:
\* "# PYI created on <now> from '<path>'[mtime:<st_mtime>]\n"
HeaderText(mtime) == <<"x", "M">> \o FloatRepr(mtime) \o <<"]", "x">>

HeaderLine(mtime) == Line("header", HeaderText(mtime), <<>>, <<>>, "", "")

\* RE_PYI_SRCFILE_MTIME.match(header): [found, group], group being the text
\* of group 1.
\* ".*" is greedy, so of all markers "[mtime:" that are followed by a
\* non-empty run of digits and dots and then "]", the last one matches.
RE_PYI_SRCFILE_MTIME(header) ==
    LET IsNum(ch) == ch \in Digits \cup {"."}
        EndOf(i) == {j \in (i + 2)..Len(header) :
                        /\ header[j] = "]"
                        /\ \A k \in (i + 1)..(j - 1) : IsNum(header[k])}
        starts == {i \in 1..Len(header) : header[i] = "M" /\ EndOf(i) # {}}
    IN  IF starts = {} THEN [found |-> FALSE, group |-> <<>>]
        ELSE LET i == CHOOSE a \in starts : \A b \in starts : b <= a
                 j == CHOOSE a \in EndOf(i) : TRUE
             IN  [found |-> TRUE, group |-> SubSeq(header, i + 1, j - 1)]

RECURSIVE DigitsValue(_)
DigitsValue(ds) ==
    IF ds = <<>> THEN 0
    ELSE 10 * DigitsValue(SubSeq(ds, 1, Len(ds) - 1)) + DigitVal(ds[Len(ds)])

RECURSIVE Pow10(_)
Pow10(e) == IF e = 0 THEN 1 ELSE 10 * Pow10(e - 1)

\* float(s) for a text s of digits and dots: the number n / 10^e, or
\* ValueError when s has more than one dot or no digit
float(s) ==
    LET dots == {i \in 1..Len(s) : s[i] = "."}
    IN  IF Cardinality(dots) > 1 \/ Cardinality(dots) = Len(s)
        THEN Raise("ValueError")
        ELSE Ok([n |-> DigitsValue(SelectSeq(s, LAMBDA ch : ch # ".")),
                 e |-> IF dots = {} THEN 0
                       ELSE Len(s) - (CHOOSE i \in dots : TRUE)])

\* src_mtime < dst_mtime, the tolerance of one second forgotten
MtimeLessStrict(src_mtime, dst_mtime) ==
    src_mtime * Pow10(dst_mtime.e) < 10 * dst_mtime.n

\* src_mtime <= dst_mtime + 1
MtimeLessInclusive(src_mtime, dst_mtime) ==
    src_mtime * Pow10(dst_mtime.e) <= 10 * dst_mtime.n + 10 * Pow10(dst_mtime.e)

\* src_mtime < dst_mtime + 1, src_mtime in tenths, dst_mtime = n / 10^e
MtimeLess(src_mtime, dst_mtime) ==
    src_mtime * Pow10(dst_mtime.e) < 10 * dst_mtime.n + 10 * Pow10(dst_mtime.e)

\* fh.readline() on the destination file
readline(lines) == IF lines = <<>> THEN <<>> ELSE lines[1].text

\* check_outputfile_is_uptodate(dest_file)
check_outputfile_is_uptodate(d, s) ==
    IF ~d.exists THEN Ok(FALSE)
    ELSE LET dst_mtime_match == RE_PYI_SRCFILE_MTIME(readline(d.lines))
         IN  IF ~dst_mtime_match.found THEN Ok(FALSE)
             ELSE LET dst_mtime == float(dst_mtime_match.group)
                  IN  IF dst_mtime.exc # NoExc THEN dst_mtime
                      ELSE Ok(MtimeLess(s.mtime, dst_mtime.val))

(***************************************************************************)
(* write_pyi                                                                *)
(***************************************************************************)
InstalledPackages == {"PySide6"}

\* "# Suitable for '<stem>.py':" or "# Pipe mode: ...", written without the
\* end of the line
SuitableLine(toFile) ==
    Line(IF toFile THEN "suitable_file" ELSE "suitable_pipe", Plain, <<>>, <<>>, "", "")

\* the same line completed by " Must contain the class <name>(<class>)\n"
InfoLine(toFile, name, class) ==
    Line(IF toFile THEN "info_file" ELSE "info_pipe", Plain, <<>>, <<>>, name, class)

ClassLine(name, class) == Line("class", Plain, <<>>, <<>>, name, class)

MemberLine(name, type) == Line("member", Plain, <<>>, <<>>, name, type)

PassLine == Line("pass", Plain, <<>>, <<>>, "", "")

\* import_section: SelectiveQtImporter(pkg) imports <pkg>.QtCore and reads
\* the cache c, then the import lines are written
import_section(results, star_imports, c, pkg) ==
    IF pkg \notin InstalledPackages THEN Raise("ModuleNotFoundError")
    ELSE Ok(get_import_lines({results[i].type : i \in 1..Len(results)},
                             star_imports, c, pkg))

\* write_pyi, lines 282-291: the class with its members, after the lines
\* head; top is the top widget, elements_dict the mapping of the members
WriteClass(head, top, elements_dict) ==
    IF elements_dict.exc # NoExc THEN [exc |-> elements_dict.exc, out |-> head]
    ELSE [exc |-> NoExc,
          out |-> head \o <<ClassLine(top.name, top.class)>>
                  \o (IF Len(elements_dict.val) > 0
                      THEN [i \in 1..Len(elements_dict.val) |->
                              MemberLine(elements_dict.val[i].name,
                                         elements_dict.val[i].type)]
                      ELSE <<PassLine>>)]

\* write_pyi, line 280: the import section; imports is what import_section
\* wrote or raised, members the elements without the top widget
WriteImports(info, nodes, topEl, members, imports) ==
    IF imports.exc # NoExc THEN [exc |-> imports.exc, out |-> info]
    ELSE WriteClass(info \o imports.val, nodes[topEl],
                    get_name_type_mapping(nodes, members))

\* write_pyi, line 279: import_dict is the mapping of all elements
WriteMapping(info, nodes, topEl, all_elements, import_dict, star_imports, c, pkg) ==
    IF import_dict.exc # NoExc THEN [exc |-> import_dict.exc, out |-> info]
    ELSE WriteImports(info, nodes, topEl, without_ui_top_widget(all_elements, topEl),
                      import_section(import_dict.val, star_imports, c, pkg))

\* write_pyi, line 276: all_elements is what list(self.get_elements()) gave
WriteElements(info, nodes, topEl, all_elements, star_imports, c, pkg) ==
    IF all_elements.exc # NoExc THEN [exc |-> all_elements.exc, out |-> info]
    ELSE WriteMapping(info, nodes, topEl, all_elements.val,
                      get_name_type_mapping(nodes, all_elements.val),
                      star_imports, c, pkg)

\* write_pyi, lines 265-273: top is what ui_top_widget gave
WriteInfo(header, nodes, toFile, top, star_imports, c, pkg) ==
    IF top.exc # NoExc
    THEN [exc |-> top.exc, out |-> Append(header, SuitableLine(toFile))]
    ELSE WriteElements(Append(header, InfoLine(toFile, nodes[top.val].name,
                                                nodes[top.val].class)),
                       nodes, top.val, get_elements(nodes), star_imports, c, pkg)

\* The text write_pyi writes and the exception it ends with: [exc, out].
\* s is the source file, toFile says whether _output_fh is set.
write_pyi_text(s, toFile, star_imports, c, pkg) ==
    WriteInfo(<<HeaderLine(s.mtime)>>, s.doc.nodes, toFile,
              ui_top_widget(s.doc.nodes), star_imports, c, pkg)

(***************************************************************************)
(* Output redirection.  w = [pyi, dest, open, stdout] is the part of the    *)
(* state the methods of UIDesingerFile act on.  A handle buffers what is    *)
(* written to it; closing it puts the buffer into the file.                 *)
(***************************************************************************)
NoObject == [alive |-> FALSE, fh |-> NoneVal, buf |-> <<>>]

NewObject == [alive |-> TRUE, fh |-> NoneVal, buf |-> <<>>]

\* self._output_fh.close()
CloseHandle(w) ==
    [w EXCEPT !.dest = [exists |-> TRUE, lines |-> w.pyi.buf],
              !.open = w.open - 1,
              !.pyi = [w.pyi EXCEPT !.fh = "closed", !.buf = <<>>]]

\* redirect_close that drops the handle without closing it
redirect_close_leak(w) ==
    IF w.pyi.fh = NoneVal THEN w
    ELSE [w EXCEPT !.pyi = [w.pyi EXCEPT !.fh = NoneVal]]

redirect_close(w) ==
    IF w.pyi.fh = NoneVal THEN w
    ELSE LET c == IF w.pyi.fh # "closed" THEN CloseHandle(w) ELSE w
         IN  [c EXCEPT !.pyi = [c.pyi EXCEPT !.fh = NoneVal]]

redirect_to_file(w) ==
    LET c == redirect_close(w)
    IN  [c EXCEPT !.dest = [exists |-> TRUE, lines |-> <<>>],
                  !.open = c.open + 1,
                  !.pyi = [c.pyi EXCEPT !.fh = "open", !.buf = <<>>]]

\* self._write of the lines out
WriteLines(w, out) ==
    IF w.pyi.fh # NoneVal
    THEN [w EXCEPT !.pyi = [w.pyi EXCEPT !.buf = w.pyi.buf \o out]]
    ELSE [w EXCEPT !.stdout = w.stdout \o out]

\* write_pyi, lines 293-295, written being the state after the writes
CloseAfterWrite(written, e) ==
    IF e = NoExc /\ written.pyi.fh # NoneVal
    THEN [w |-> [CloseHandle(written) EXCEPT
                    !.pyi = [alive |-> TRUE, fh |-> NoneVal, buf |-> <<>>]],
          exc |-> NoExc]
    ELSE [w |-> written, exc |-> e]

\* the effect of write_pyi that wrote and raised what r says
WriteResult(w, r) == CloseAfterWrite(WriteLines(w, r.out), r.exc)

\* write_pyi as a method: [w, exc]
write_pyi(w, s, star_imports, c, pkg) ==
    WriteResult(w, write_pyi_text(s, w.pyi.fh # NoneVal, star_imports, c, pkg))

\* __init__ without the check of the root element
UIDesingerFile_init_anyroot(doc) ==
    IF ~doc.wf THEN Raise("ExpatError") ELSE Ok(NewObject)

\* UIDesingerFile.__init__ on a file with document doc
UIDesingerFile_init(doc) ==
    IF ~doc.wf THEN Raise("ExpatError")
    ELSE IF doc.root # "ui" THEN Raise("TypeError")
    ELSE Ok(NewObject)

(***************************************************************************)
(* main: argument parsing (the list operations of lines 310-335)            *)
(***************************************************************************)
Contains(args, a) == \E i \in 1..Len(args) : args[i] = a

\* list.index
IndexOf(args, a) == CHOOSE i \in 1..Len(args) : args[i] = a /\ \A j \in 1..(i - 1) : args[j] # a

\* the list after list.pop(i)
PopAt(args, i) == SubSeq(args, 1, i - 1) \o SubSeq(args, i + 1, Len(args))

\* list.remove
Remove(args, a) == PopAt(args, IndexOf(args, a))

DefaultCfg ==
    [star_imports |-> FALSE, force_recreate_file |-> FALSE, file_output |-> NoneVal,
     qt_package |-> "PySide6", src_path |-> NoneVal]

\* an option taking a value: [exc, args, value]; value is NoneVal when the
\* option is absent, IndexError is raised when the value is missing
TakeOption(args, opt) ==
    IF ~Contains(args, opt) THEN [exc |-> NoExc, args |-> args, value |-> NoneVal]
    ELSE LET index == IndexOf(args, opt)
             popped == PopAt(args, index)
         IN  IF index > Len(popped)
             THEN [exc |-> "IndexError", args |-> popped, value |-> NoneVal]
             ELSE [exc |-> NoExc, args |-> PopAt(popped, index), value |-> popped[index]]

\* main up to line 337: [exc, ret, cfg]; ret is the value returned, NoCode
\* when main goes on
ParseArgs(args) ==
    IF Contains(args, "-h") THEN [exc |-> NoExc, ret |-> 0, cfg |-> DefaultCfg]
    ELSE
    LET star_imports == Contains(args, "-s")
        a1 == IF star_imports THEN Remove(args, "-s") ELSE args
        force_recreate_file == Contains(a1, "-f")
        a2 == IF force_recreate_file THEN Remove(a1, "-f") ELSE a1
        o == TakeOption(a2, "-o")
        p == TakeOption(o.args, "-p")
        c == [star_imports |-> star_imports,
              force_recreate_file |-> force_recreate_file,
              file_output |-> o.value,
              qt_package |-> IF p.value = NoneVal THEN "PySide6" ELSE p.value,
              src_path |-> IF Len(p.args) = 1 THEN p.args[1] ELSE NoneVal]
    IN  IF o.exc # NoExc THEN [exc |-> o.exc, ret |-> NoCode, cfg |-> DefaultCfg]
        ELSE IF p.exc # NoExc THEN [exc |-> p.exc, ret |-> NoCode, cfg |-> DefaultCfg]
        ELSE IF Len(p.args) # 1 THEN [exc |-> NoExc, ret |-> 1, cfg |-> c]
        ELSE [exc |-> NoExc, ret |-> NoCode, cfg |-> c]

\* The command lines main is run with: up to MaxArgs words, a word being a
\* flag, an option with or without its value, or the source path.  Only
\* command lines whose -o value is the destination path and whose -p value
\* is a package name are considered.
Words == {<<"-h">>, <<"-s">>, <<"-f">>, <<"-o">>, <<"-o", "out">>,
          <<"-p", "PyQt6">>, <<"ui">>}

\* the command line made of the words ws
RECURSIVE Flatten(_)
Flatten(ws) == IF ws = <<>> THEN <<>> ELSE Head(ws) \o Flatten(Tail(ws))

ValidArgs(p) ==
    /\ p.cfg.file_output \in {NoneVal, "out"}
    /\ p.cfg.qt_package \in {"PySide6", "PyQt6"}

(***************************************************************************)
(* Documents and files the specifications start from                        *)
(***************************************************************************)
Node(tag, name, class, depth) == [tag |-> tag, name |-> name, class |-> class, depth |-> depth]

ElementNames == {"Main", "btn"}

\* tag, name and class of an element; an item carries neither name nor class
Attrs ==
    {<<"item", "", "">>}
    \cup {<<"widget", n, c>> : n \in ElementNames, c \in {"QWidget", "Foo"}}
    \cup {<<"layout", n, "Bar">> : n \in ElementNames \cup {"lay"}}
    \cup {<<"action", n, c>> : n \in ElementNames, c \in {"", "Foo"}}

\* nesting depths of n elements in textual order
DepthSeqs(n) ==
    {ds \in [1..n -> 1..n] :
        /\ n > 0 => ds[1] = 1
        /\ \A i \in 1..(n - 1) : ds[i + 1] <= ds[i] + 1}

\* the elements with attributes as and depths ds
NodesOf(as, ds) == [i \in DOMAIN as |-> Node(as[i][1], as[i][2], as[i][3], ds[i])]

UiDoc(nodes) == [wf |-> TRUE, root |-> "ui", nodes |-> nodes]

GoodNodes == <<Node("widget", "Main", "QWidget", 1), Node("widget", "btn", "Foo", 2)>>

DupNodes == <<Node("widget", "Main", "QWidget", 1), Node("layout", "Main", "QWidget", 2)>>

NoWidgetNodes == <<Node("layout", "Main", "QWidget", 1)>>

RunDocs ==
    {UiDoc(GoodNodes), UiDoc(DupNodes), UiDoc(NoWidgetNodes),
     [wf |-> TRUE, root |-> "form", nodes |-> GoodNodes],
     [wf |-> FALSE, root |-> "", nodes |-> <<>>]}

\* the classes a Qt 6 binding exports, by module group
QtCache ==
    [m \in Range(MODULES) |->
        CASE m = "QtCore"    -> {}
          [] m = "QtGui"     -> {"QAction"}
          [] m = "QtWidgets" -> {"QLCDNumber", "QLabel", "QWidget"}]

NoFile == [exists |-> FALSE, lines |-> <<>>]

RawLine(text) == Line("raw", text, <<>>, <<>>, "", "")

FileOf(lines) == [exists |-> TRUE, lines |-> lines]

OldFile == FileOf(<<RawLine(Plain)>>)

InitialMtime == 5

TouchSteps == {5, 10}

\* first lines somebody else may have put into the destination file
ForeignHeaders == {<<"x", "M", "1", ".", "2", ".", "3", "]">>}

NoHist ==
    [mode |-> "none", stage |-> "none", destAtStart |-> NoFile, opened |-> FALSE,
     checked |-> "no", fresh |-> FALSE, freshAtStart |-> FALSE, calls |-> 0]

NoResult == Ok(NoneVal)

World == [pyi |-> pyi, dest |-> dest, open |-> openHandles, stdout |-> stdout]

SetWorld(w) ==
    /\ pyi' = w.pyi
    /\ dest' = w.dest
    /\ openHandles' = w.open
    /\ stdout' = w.stdout

\* write_pyi ended as r = [w, exc] says
Written(r) ==
    /\ SetWorld(r.w)
    /\ exc' = r.exc

\* the values all specifications start with, apart from the inputs they draw
Quiet ==
    /\ cfg = DefaultCfg
    /\ pyi = NoObject
    /\ openHandles = 0
    /\ stdout = <<>>
    /\ exitcode = NoCode
    /\ exc = NoExc
    /\ hist = NoHist
    /\ result = NoResult

(***************************************************************************)
(* Spec: runs of main, and a client that uses UIDesingerFile directly,      *)
(* on a file system in which the source file is touched and the             *)
(* destination file removed or replaced between the runs.                   *)
(***************************************************************************)
Init ==
    /\ src \in {[exists |-> e, mtime |-> InitialMtime, doc |-> d] :
                    e \in BOOLEAN, d \in RunDocs}
    /\ dest \in {NoFile, OldFile}
    /\ cache = QtCache
    /\ pc = "idle"
    /\ clss = {}
    /\ star = FALSE
    /\ Quiet

TouchSource ==
    /\ pc = "idle"
    /\ src.exists
    /\ \E d \in TouchSteps :
        /\ src.mtime + d <= MaxMtime
        /\ src' = [src EXCEPT !.mtime = src.mtime + d]
    /\ hist' = [hist EXCEPT !.fresh = FALSE]
    /\ UNCHANGED <<dest, cache, pc, cfg, pyi, openHandles, stdout, exitcode, exc,
                   clss, star, result>>

RemoveDest ==
    /\ pc = "idle"
    /\ dest.exists
    /\ dest' = NoFile
    /\ hist' = [hist EXCEPT !.fresh = FALSE]
    /\ UNCHANGED <<src, cache, pc, cfg, pyi, openHandles, stdout, exitcode, exc,
                   clss, star, result>>

EditDest ==
    /\ pc = "idle"
    /\ \E h \in ForeignHeaders :
        /\ dest # FileOf(<<RawLine(h)>>)
        /\ dest' = FileOf(<<RawLine(h)>>)
    /\ hist' = [hist EXCEPT !.fresh = FALSE]
    /\ UNCHANGED <<src, cache, pc, cfg, pyi, openHandles, stdout, exitcode, exc,
                   clss, star, result>>

\* Path(p).is_file()
is_file(p) == (p = "ui" /\ src.exists) \/ (p = "out" /\ dest.exists)

\* the document parse() finds in the file p; a pyi file is not XML
DocOf(p) == IF p = "ui" THEN src.doc ELSE [wf |-> FALSE, root |-> "", nodes |-> <<>>]

\* main, lines 301-345: the process ends with code c at stage st
Finish(c, st) ==
    /\ exitcode' = c
    /\ pc' = "done"
    /\ hist' = [hist EXCEPT !.stage = st]

MainArgs ==
    /\ pc = "idle"
    /\ \E n \in 0..MaxArgs : \E ws \in [1..n -> Words] :
        LET p == ParseArgs(Flatten(ws))
            h == [NoHist EXCEPT !.mode = "main", !.destAtStart = dest,
                                !.fresh = hist.fresh, !.freshAtStart = hist.fresh]
        IN  /\ ValidArgs(p)
            /\ cfg' = p.cfg
            /\ exc' = p.exc
            /\ IF p.exc # NoExc
               THEN /\ exitcode' = 1
                    /\ pc' = "done"
                    /\ hist' = [h EXCEPT !.stage = "indexerror"]
               ELSE IF p.ret # NoCode
               THEN /\ exitcode' = p.ret
                    /\ pc' = "done"
                    /\ hist' = [h EXCEPT !.stage = IF p.ret = 0 THEN "help" ELSE "argcount"]
               ELSE IF ~is_file(p.cfg.src_path)
               THEN /\ exitcode' = 1
                    /\ pc' = "done"
                    /\ hist' = [h EXCEPT !.stage = "nosrc"]
               ELSE /\ exitcode' = NoCode
                    /\ pc' = "ctor"
                    /\ hist' = [h EXCEPT !.stage = "args"]
    /\ UNCHANGED <<src, dest, cache, pyi, openHandles, stdout, clss, star, result>>

\* line 347; an exception leaves main and the process exits with 1
MainCtor ==
    /\ pc = "ctor"
    /\ LET r == UIDesingerFile_init(DocOf(cfg.src_path))
       IN  /\ exc' = r.exc
           /\ IF r.exc # NoExc
              THEN /\ Finish(1, "ctor")
                   /\ pyi' = pyi
              ELSE /\ pyi' = r.val
                   /\ pc' = "check"
                   /\ exitcode' = exitcode
                   /\ hist' = [hist EXCEPT !.stage = "ctor"]
    /\ UNCHANGED <<src, dest, cache, cfg, openHandles, stdout, clss, star, result>>

\* lines 349-351
MainCheck ==
    /\ pc = "check"
    /\ IF cfg.file_output # NoneVal /\ ~cfg.force_recreate_file
       THEN LET r == check_outputfile_is_uptodate(dest, src)
            IN  /\ exc' = r.exc
                /\ IF r.exc # NoExc
                   THEN /\ exitcode' = 1
                        /\ pc' = "done"
                        /\ hist' = [hist EXCEPT !.stage = "check", !.checked = "raised"]
                   ELSE IF r.val
                   THEN /\ exitcode' = 0
                        /\ pc' = "done"
                        /\ hist' = [hist EXCEPT !.stage = "check", !.checked = "True"]
                   ELSE /\ exitcode' = exitcode
                        /\ pc' = "redirect"
                        /\ hist' = [hist EXCEPT !.stage = "check", !.checked = "False"]
       ELSE /\ pc' = "redirect"
            /\ hist' = [hist EXCEPT !.stage = "check"]
            /\ UNCHANGED <<exitcode, exc>>
    /\ UNCHANGED <<src, dest, cache, cfg, pyi, openHandles, stdout, clss, star, result>>

\* lines 353-357
MainRedirect ==
    /\ pc = "redirect"
    /\ IF cfg.file_output # NoneVal
       THEN /\ SetWorld(redirect_to_file(World))
            /\ hist' = [hist EXCEPT !.stage = "redirect", !.opened = TRUE]
       ELSE /\ SetWorld(redirect_close(World))
            /\ hist' = [hist EXCEPT !.stage = "redirect"]
    /\ pc' = "write"
    /\ UNCHANGED <<src, cache, cfg, exitcode, exc, clss, star, result>>

\* lines 359-366: the try block; result is the value about to be returned
MainWrite ==
    /\ pc = "write"
    /\ Written(write_pyi(World, src, cfg.star_imports, cache, cfg.qt_package))
    /\ result' = Ok(IF exc' = NoExc THEN 0 ELSE 1)
    /\ pc' = "finally"
    /\ hist' = [hist EXCEPT !.stage = "write"]
    /\ UNCHANGED <<src, cache, cfg, exitcode, clss, star>>

\* lines 367-368, then the return
MainFinally ==
    /\ pc = "finally"
    /\ SetWorld(redirect_close(World))
    /\ exitcode' = result.val
    /\ pc' = "done"
    /\ UNCHANGED <<src, cache, cfg, exc, hist, clss, star, result>>

\* the process is over; pyi is discarded (__del__)
MainExit ==
    /\ pc = "done"
    /\ hist.mode = "main"
    /\ LET w == IF pyi.alive THEN redirect_close(World) ELSE World
       IN  /\ dest' = w.dest
           /\ openHandles' = w.open
    /\ pyi' = NoObject
    /\ stdout' = <<>>
    /\ cfg' = DefaultCfg
    /\ exitcode' = NoCode
    /\ exc' = NoExc
    /\ result' = NoResult
    /\ pc' = "idle"
    /\ hist' = [NoHist EXCEPT !.fresh =
                    IF hist.opened /\ exitcode = 0 THEN TRUE
                    ELSE IF dest = hist.destAtStart THEN hist.freshAtStart
                    ELSE FALSE]
    /\ UNCHANGED <<src, cache, clss, star>>

\* a client script: pyi = UIDesingerFile("ui")
ClientNew ==
    /\ pc = "idle"
    /\ is_file("ui")
    /\ LET r == UIDesingerFile_init(DocOf("ui"))
       IN  /\ r.exc = NoExc
           /\ pyi' = r.val
    /\ pc' = "client"
    /\ hist' = [NoHist EXCEPT !.mode = "client", !.destAtStart = dest]
    /\ UNCHANGED <<src, dest, cache, cfg, openHandles, stdout, exitcode, exc,
                   clss, star, result>>

\* pyi.redirect_to_file(Path("out"))
ClientRedirectToFile ==
    /\ pc = "client"
    /\ SetWorld(redirect_to_file(World))
    /\ hist' = [hist EXCEPT !.opened = TRUE]
    /\ UNCHANGED <<src, cache, pc, cfg, exitcode, exc, clss, star, result>>

\* pyi.redirect_close()
ClientRedirectClose ==
    /\ pc = "client"
    /\ SetWorld(redirect_close(World))
    /\ UNCHANGED <<src, cache, pc, cfg, exitcode, exc, hist, clss, star, result>>

\* pyi.write_pyi(star_imports); the client catches what it raises
ClientWritePyi ==
    /\ pc = "client"
    /\ hist.calls < MaxCalls
    /\ \E st \in BOOLEAN : Written(write_pyi(World, src, st, cache, cfg.qt_package))
    /\ hist' = [hist EXCEPT !.calls = hist.calls + 1]
    /\ UNCHANGED <<src, cache, pc, cfg, exitcode, clss, star, result>>

\* del pyi: __del__ closes what redirection is left
ClientDel ==
    /\ pc = "client"
    /\ LET w == redirect_close(World)
       IN  /\ dest' = w.dest
           /\ openHandles' = w.open
    /\ pyi' = NoObject
    /\ stdout' = <<>>
    /\ exc' = NoExc
    /\ pc' = "idle"
    /\ hist' = NoHist
    /\ UNCHANGED <<src, cache, cfg, exitcode, clss, star, result>>

Next ==
    \/ TouchSource
    \/ RemoveDest
    \/ EditDest
    \/ MainArgs
    \/ MainCtor
    \/ MainCheck
    \/ MainRedirect
    \/ MainWrite
    \/ MainFinally
    \/ MainExit
    \/ ClientNew
    \/ ClientRedirectToFile
    \/ ClientRedirectClose
    \/ ClientWritePyi
    \/ ClientDel

Spec == Init /\ [][Next]_vars

(***************************************************************************)
(* SpecImport: get_import_lines on every class set and every cache          *)
(***************************************************************************)
ImportNames == {"Foo", "QAction", "QLCDNumber", "QLabel"}

\* a cache file may lack a module group
Caches ==
    UNION {[D -> SUBSET ImportNames] : D \in SUBSET Range(MODULES)}

QuietFiles ==
    /\ src = [exists |-> TRUE, mtime |-> InitialMtime, doc |-> UiDoc(GoodNodes)]
    /\ dest = NoFile

InitImport ==
    /\ QuietFiles
    /\ cache \in Caches
    /\ clss \in SUBSET ImportNames
    /\ star \in BOOLEAN
    /\ pc = "import"
    /\ Quiet

GetImportLines ==
    /\ pc = "import"
    /\ result' = Ok(get_import_lines(clss, star, cache, cfg.qt_package))
    /\ pc' = "imported"
    /\ UNCHANGED <<src, dest, cache, cfg, pyi, openHandles, stdout, exitcode, exc,
                   hist, clss, star>>

NextImport == GetImportLines

SpecImport == InitImport /\ [][NextImport]_vars

(***************************************************************************)
(* SpecCheck: check_outputfile_is_uptodate on every first line              *)
(***************************************************************************)
HeaderTokens == {"x", "M", "]", ".", "1", "2"}

Headers ==
    UNION {[1..k -> HeaderTokens] : k \in 0..MaxHeaderLen}
    \cup {HeaderText(t) : t \in 0..MaxMtime}

InitCheck ==
    /\ src \in {[exists |-> TRUE, mtime |-> t, doc |-> UiDoc(GoodNodes)] : t \in 0..MaxMtime}
    /\ dest \in {NoFile, FileOf(<<>>)} \cup {FileOf(<<RawLine(h)>>) : h \in Headers}
    /\ cache = QtCache
    /\ clss = {}
    /\ star = FALSE
    /\ pc = "check_uptodate"
    /\ Quiet

CheckUpToDate ==
    /\ pc = "check_uptodate"
    /\ result' = check_outputfile_is_uptodate(dest, src)
    /\ pc' = "checked"
    /\ UNCHANGED <<src, dest, cache, cfg, pyi, openHandles, stdout, exitcode, exc,
                   hist, clss, star>>

NextCheck == CheckUpToDate

SpecCheck == InitCheck /\ [][NextCheck]_vars

(***************************************************************************)
(* SpecDoc: main(["ui"]) from the call of write_pyi on, on every document   *)
(* of up to MaxNodes elements.  The initial states are those MainRedirect   *)
(* leaves when there is no destination file.                                *)
(***************************************************************************)
InitDoc ==
    /\ \E n \in 0..MaxNodes :
        \E as \in [1..n -> Attrs], ds \in DepthSeqs(n) :
            src = [exists |-> TRUE, mtime |-> InitialMtime, doc |-> UiDoc(NodesOf(as, ds))]
    /\ dest = NoFile
    /\ cache = QtCache
    /\ clss = {}
    /\ star = FALSE
    /\ pc = "write"
    /\ cfg = [DefaultCfg EXCEPT !.src_path = "ui"]
    /\ pyi = NewObject
    /\ openHandles = 0
    /\ stdout = <<>>
    /\ exitcode = NoCode
    /\ exc = NoExc
    /\ hist = [NoHist EXCEPT !.mode = "main", !.stage = "redirect"]
    /\ result = NoResult

NextDoc == MainWrite \/ MainFinally

SpecDoc == InitDoc /\ [][NextDoc]_vars

(***************************************************************************)
(* Properties                                                               *)
(***************************************************************************)
MainDone == pc = "done" /\ hist.mode = "main"

\* the source file is a ui document main accepts
SourceValid == src.exists /\ src.doc.wf /\ src.doc.root = "ui"

\* the run had "-o out", the source "ui", and the run before it wrote the
\* stub with "-o out"; nothing has changed since
SecondRun == MainDone /\ cfg.src_path = "ui" /\ cfg.file_output = "out" /\ hist.freshAtStart

\* the destination file starts with the header line of the current source
Regenerated(lines) == lines # <<>> /\ lines[1] = HeaderLine(src.mtime)

\* C1: of two runs of main with the same -o OUTFILE and an unchanged source
\* file, the second finds the output up to date, returns 0 and neither opens
\* nor rewrites OUTFILE; with -f it regenerates without consulting the
\* check; without -o the check is never consulted and the stub is written.
C1_SecondRunSkips ==
    /\ SecondRun /\ ~cfg.force_recreate_file =>
          /\ hist.checked = "True"
          /\ exitcode = 0
          /\ ~hist.opened
          /\ dest = hist.destAtStart
    /\ SecondRun /\ cfg.force_recreate_file =>
          /\ hist.checked = "no"
          /\ hist.opened
          /\ Regenerated(dest.lines)
    /\ MainDone /\ cfg.src_path = "ui" /\ cfg.file_output = NoneVal /\ SourceValid =>
          /\ hist.checked = "no"
          /\ hist.stage = "write"
          /\ Regenerated(stdout)

C1_Witness ==
    /\ SecondRun
    /\ ~cfg.force_recreate_file
    /\ hist.checked = "True"
    /\ exitcode = 0

CheckDone == pc = "checked"

ResultIs(b) == result.exc = NoExc /\ result.val = b

\* the destination file starts with the header write_pyi writes for a
\* source modified at time t
GeneratedAt(t) == dest.exists /\ readline(dest.lines) = HeaderText(t)

\* C2 (as amended): check_outputfile_is_uptodate returns False when the
\* destination does not exist, True when the time in its header is newer
\* than the modification time of the source, and False when the source is
\* at least one second newer than the time in the header.
C2_UpToDate ==
    CheckDone =>
        /\ ~dest.exists => ResultIs(FALSE)
        /\ \A t \in 0..MaxMtime :
              /\ GeneratedAt(t) /\ t > src.mtime => ResultIs(TRUE)
              /\ GeneratedAt(t) /\ src.mtime >= t + 10 => ResultIs(FALSE)

C2_Witness ==
    /\ CheckDone
    /\ \E t \in 0..MaxMtime : GeneratedAt(t) /\ src.mtime >= t + 10
    /\ ResultIs(FALSE)

\* C2 as stated: ... and False whenever the modification time of the source
\* is later than the time in the header.
C2_Original ==
    CheckDone =>
        /\ ~dest.exists => ResultIs(FALSE)
        /\ \A t \in 0..MaxMtime :
              /\ GeneratedAt(t) /\ t > src.mtime => ResultIs(TRUE)
              /\ GeneratedAt(t) /\ src.mtime > t => ResultIs(FALSE)

\* a number can be read from the first line of the destination file
HasTimestamp ==
    LET m == RE_PYI_SRCFILE_MTIME(readline(dest.lines))
    IN  m.found /\ float(m.group).exc = NoExc

\* C3: check_outputfile_is_uptodate never raises, and returns False for an
\* existing destination from whose first line no number can be read.
C3_NeverRaises ==
    CheckDone =>
        /\ result.exc = NoExc
        /\ dest.exists /\ ~HasTimestamp => result.val = FALSE

ImportDone == pc = "imported"

IsImport(l) == l.kind = "import"

\* the position in MODULES of the group a line imports from
GroupOf(l) == CHOOSE g \in 1..Len(MODULES) : MODULES[g] = l.module[2]

StrictlySorted(names) == \A k \in 1..(Len(names) - 1) : StrLess(names[k], names[k + 1])

\* the groups whose cached class list contains the name c
GroupsWith(c) == {g \in 1..Len(MODULES) : c \in CacheGet(cache, MODULES[g])}

\* C4: in selective mode the import lines follow the order of MODULES with
\* at most one line per group, the names of a line are sorted, every
\* requested name is in the line of the first group whose cache contains it
\* and in no other line, and no line is without names.
C4_SelectiveImports ==
    ImportDone /\ ~star =>
        LET ls == result.val
            imports == {i \in 1..Len(ls) : IsImport(ls[i])}
        IN  /\ \A i \in imports :
                  /\ ls[i].module[1] = cfg.qt_package
                  /\ ls[i].module[2] \in Range(MODULES)
                  /\ ls[i].names # <<>>
                  /\ StrictlySorted(ls[i].names)
                  /\ Range(ls[i].names) \subseteq clss
            /\ \A i, j \in imports : i < j => GroupOf(ls[i]) < GroupOf(ls[j])
            /\ \A c \in clss :
                  LET holders == {i \in imports : c \in Range(ls[i].names)}
                  IN  IF GroupsWith(c) = {} THEN holders = {}
                      ELSE /\ Cardinality(holders) = 1
                           /\ \A i \in holders :
                                 /\ GroupOf(ls[i]) \in GroupsWith(c)
                                 /\ \A g \in GroupsWith(c) : GroupOf(ls[i]) <= g

C4_Witness ==
    /\ ImportDone
    /\ ~star
    /\ \E c \in clss : Cardinality(GroupsWith(c)) > 1
    /\ Cardinality({i \in 1..Len(result.val) : IsImport(result.val[i])}) > 1
    /\ \E i \in 1..Len(result.val) : Len(result.val[i].names) > 1

\* C6: in star mode there is exactly one line "from <package>.<group>
\* import *" per group of MODULES, in their order, whatever the class set
\* and the cache, and no other line.
C6_StarImports ==
    ImportDone /\ star =>
        /\ Len(result.val) = Len(MODULES)
        /\ \A i \in 1..Len(result.val) :
              /\ result.val[i].kind = "star"
              /\ result.val[i].module = <<cfg.qt_package, MODULES[i]>>

C6_Witness ==
    /\ ImportDone
    /\ star
    /\ \E c \in clss : GroupsWith(c) = {}
    /\ Len(result.val) = 3

Collected == {"widget", "layout", "action"}

\* the elements of the document that are widgets, layouts or actions
CollectedOf(nodes) == {i \in 1..Len(nodes) : nodes[i].tag \in Collected}

HasWidget(nodes) == \E i \in 1..Len(nodes) : nodes[i].tag = "widget"

\* two elements of the document share a name
HasDuplicate(nodes) ==
    \E i, j \in CollectedOf(nodes) : i # j /\ nodes[i].name = nodes[j].name

\* the first widget of the document
FirstWidget(nodes) ==
    CHOOSE i \in 1..Len(nodes) :
        nodes[i].tag = "widget" /\ \A j \in 1..(i - 1) : nodes[j].tag # "widget"

TypeOf(n) == IF n.tag = "action" THEN "QAction" ELSE n.class

\* the type names of the document that no module group of the cache has
UnknownTypes(nodes) ==
    {TypeOf(nodes[i]) : i \in CollectedOf(nodes)}
        \ UNION {CacheGet(cache, MODULES[g]) : g \in 1..Len(MODULES)}

ValidRun ==
    /\ MainDone
    /\ cfg.src_path = "ui"
    /\ hist.stage = "write"
    /\ HasWidget(src.doc.nodes)
    /\ ~HasDuplicate(src.doc.nodes)
    /\ cfg.qt_package \in InstalledPackages

\* C5: in selective mode the names found in no module group make exactly
\* one "# Unknown class(es)" line, sorted, after all import lines, and none
\* when every name resolves; the run still ends with exit code 0 and every
\* member of an unresolved type is declared with that type name.
C5_UnknownClasses ==
    ValidRun /\ ~cfg.star_imports /\ cfg.file_output = NoneVal =>
        LET nodes == src.doc.nodes
            ls == stdout
            U == UnknownTypes(nodes)
            unk == {i \in 1..Len(ls) : ls[i].kind = "unknown"}
        IN  /\ exitcode = 0
            /\ exc = NoExc
            /\ IF U = {} THEN unk = {}
               ELSE /\ Cardinality(unk) = 1
                    /\ \A i \in unk :
                          /\ Range(ls[i].names) = U
                          /\ StrictlySorted(ls[i].names)
                          /\ \A j \in 1..Len(ls) : IsImport(ls[j]) => j < i
            /\ \A e \in CollectedOf(nodes) \ {FirstWidget(nodes)} :
                  TypeOf(nodes[e]) \in U =>
                      \E k \in 1..Len(ls) :
                          ls[k] = MemberLine(nodes[e].name, TypeOf(nodes[e]))

C5_Witness ==
    /\ ValidRun
    /\ ~cfg.star_imports
    /\ cfg.file_output = NoneVal
    /\ exitcode = 0
    /\ \E k \in 1..Len(stdout) : stdout[k].kind = "unknown"
    /\ \E k \in 1..Len(stdout) : stdout[k].kind = "member" /\ stdout[k].type = "Foo"
    /\ \E k \in 1..Len(stdout) : IsImport(stdout[k])

GenerationDone == MainDone /\ cfg.src_path = "ui" /\ hist.stage = "write"

\* C7 (as amended): a document in which two elements share a name always
\* fails: with NameError when the document has a widget, and with the
\* ValueError of the missing widget when it has none.
C7_DuplicateNames ==
    GenerationDone /\ HasDuplicate(src.doc.nodes) =>
        /\ exitcode = 1
        /\ exc = IF HasWidget(src.doc.nodes) THEN "NameError" ELSE "ValueError"

C7_Witness ==
    /\ GenerationDone
    /\ exc = "NameError"
    /\ LET nodes == src.doc.nodes
       IN  \E i \in CollectedOf(nodes) :
              /\ i # FirstWidget(nodes)
              /\ nodes[i].tag # "widget"
              /\ nodes[i].name = nodes[FirstWidget(nodes)].name

\* C7 as stated: such a document always fails with NameError.
C7_Original ==
    GenerationDone /\ HasDuplicate(src.doc.nodes) =>
        /\ exitcode = 1
        /\ exc = "NameError"

\* C8: at most one output handle is open at any time, and none is open
\* when main returns, whether write_pyi succeeded or raised.
C8_HandlesClosed ==
    /\ openHandles <= 1
    /\ openHandles = 1 <=> pyi.fh = "open"
    /\ MainDone => openHandles = 0 /\ pyi.fh = NoneVal

C8_Witness ==
    /\ MainDone
    /\ hist.opened
    /\ exc = "ModuleNotFoundError"
    /\ exitcode = 1
    /\ openHandles = 0

\* C9: a run that fails for a wrong number of arguments, a missing source
\* file, a source that is not well-formed or a root element other than ui
\* ends with exit code 1 and leaves the destination file as it was.
C9_EarlyFailure ==
    MainDone /\ (hist.stage = "argcount" \/ (cfg.src_path = "ui" /\ ~SourceValid)) =>
        /\ exitcode = 1
        /\ ~hist.opened
        /\ dest = hist.destAtStart

C9_Witness ==
    /\ MainDone
    /\ cfg.file_output = "out"
    /\ cfg.force_recreate_file
    /\ src.exists
    /\ src.doc.wf
    /\ src.doc.root = "form"
    /\ exitcode = 1
    /\ dest = OldFile

\* the lines are a whole stub
CompleteStub(lines) == \E k \in 1..Len(lines) : lines[k].kind = "class"

\* C10: a run with -o that fails with a duplicate element name ends with
\* exit code 1 and does not leave an incomplete stub in the destination.
C10_NoPartialOutput ==
    MainDone /\ cfg.file_output = "out" /\ exc = "NameError" =>
        /\ exitcode = 1
        /\ dest = hist.destAtStart \/ (dest.exists /\ CompleteStub(dest.lines))

(***************************************************************************)
(* Order and typing of the collected elements, the top widget               *)
(***************************************************************************)
\* the collected elements in document order: the order of the start tags,
\* which is the order of a depth-first pre-order walk
DocumentOrder(nodes) == Ascending(1, Len(nodes), CollectedOf(nodes))

\* the member lines among the lines ls, in the order written
MemberLines(ls) == SelectSeq(ls, LAMBDA l : l.kind = "member")

\* the member lines of the elements els, in the order of els
MemberLinesOf(nodes, els) ==
    [k \in 1..Len(els) |-> MemberLine(nodes[els[k]].name, TypeOf(nodes[els[k]]))]

\* C11: get_elements yields the widgets, layouts and actions in document
\* order, also when the tags are interleaved, and write_pyi writes the
\* member lines in that same order.
C11_DocumentOrder ==
    ValidRun /\ cfg.file_output = NoneVal =>
        LET nodes == src.doc.nodes
            els == get_elements(nodes)
        IN  /\ els.exc = NoExc
            /\ els.val = DocumentOrder(nodes)
            /\ MemberLines(stdout) =
                   MemberLinesOf(nodes, SelectSeq(DocumentOrder(nodes),
                                     LAMBDA e : e # FirstWidget(nodes)))

\* the lines of ls that carry the class name c: as an imported or unknown
\* name, or as the type of a member or of the class
LinesNaming(ls, c) ==
    {k \in 1..Len(ls) : c \in Range(ls[k].names) \/ ls[k].type = c}

\* the actions of the document
ActionsOf(nodes) == {e \in CollectedOf(nodes) : nodes[e].tag = "action"}

\* action e has a class attribute that is the type of no element
OwnClassOnly(nodes, e) ==
    /\ nodes[e].class \notin {"", "QAction"}
    /\ \A o \in CollectedOf(nodes) \ ActionsOf(nodes) : nodes[o].class # nodes[e].class

\* C12: get_name_type_mapping gives every action the type "QAction"
\* whatever its class attribute and every other element the value of its
\* class attribute; an action is declared as QAction, and its own class
\* attribute appears in no import line, unknown line or member line.
C12_ActionType ==
    ValidRun /\ cfg.file_output = NoneVal =>
        LET nodes == src.doc.nodes
            m == get_name_type_mapping(nodes, get_elements(nodes).val)
        IN  /\ m.exc = NoExc
            /\ Len(m.val) = Cardinality(CollectedOf(nodes))
            /\ \A i \in 1..Len(m.val) :
                  LET n == nodes[m.val[i].el]
                  IN  /\ n.tag = "action" => m.val[i].type = "QAction"
                      /\ n.tag # "action" => m.val[i].type = n.class
            /\ \A e \in ActionsOf(nodes) :
                  /\ \E k \in 1..Len(stdout) :
                        stdout[k] = MemberLine(nodes[e].name, "QAction")
                  /\ \A k \in 1..Len(stdout) :
                        stdout[k].kind = "member" /\ stdout[k].name = nodes[e].name
                            => stdout[k].type = "QAction"
                  /\ OwnClassOnly(nodes, e) => LinesNaming(stdout, nodes[e].class) = {}
                  /\ ~cfg.star_imports =>
                        \E k \in 1..Len(stdout) :
                            /\ stdout[k].kind \in {"import", "unknown"}
                            /\ "QAction" \in Range(stdout[k].names)

C12_Witness ==
    /\ ValidRun
    /\ cfg.file_output = NoneVal
    /\ exitcode = 0
    /\ \E e \in ActionsOf(src.doc.nodes) :
          /\ src.doc.nodes[e].class = "Foo"
          /\ OwnClassOnly(src.doc.nodes, e)
          /\ \E k \in 1..Len(stdout) :
                stdout[k] = MemberLine(src.doc.nodes[e].name, "QAction")
    /\ \E k \in 1..Len(stdout) : IsImport(stdout[k]) /\ "QAction" \in Range(stdout[k].names)

\* the names the import and unknown lines of ls carry
ImportedNames(ls) ==
    UNION {Range(ls[k].names) : k \in {j \in 1..Len(ls) : ls[j].kind \in {"import", "unknown"}}}

\* C13: on a valid document of N elements with distinct names the class is
\* the first widget of the document, the body declares the N-1 other
\* elements, each exactly once, the import section is made from the types
\* of all N elements, and the body is the line "pass" when N-1 is 0.
C13_TopWidgetExcluded ==
    ValidRun /\ cfg.file_output = NoneVal =>
        LET nodes == src.doc.nodes
            top == FirstWidget(nodes)
            others == CollectedOf(nodes) \ {top}
            ls == stdout
            members == MemberLines(ls)
            classes == {k \in 1..Len(ls) : ls[k].kind = "class"}
            passes == {k \in 1..Len(ls) : ls[k].kind = "pass"}
        IN  /\ exitcode = 0
            /\ ui_top_widget(nodes) = Ok(top)
            /\ Cardinality(classes) = 1
            /\ \A k \in classes :
                  /\ ls[k] = ClassLine(nodes[top].name, nodes[top].class)
                  /\ \A j \in 1..Len(ls) :
                        ls[j].kind \in {"member", "pass"} <=> j > k
            /\ Len(members) = Cardinality(others)
            /\ \A e \in others :
                  Cardinality({k \in 1..Len(members) :
                      members[k] = MemberLine(nodes[e].name, TypeOf(nodes[e]))}) = 1
            /\ ~cfg.star_imports =>
                  ImportedNames(ls) = {TypeOf(nodes[e]) : e \in CollectedOf(nodes)}
            /\ IF others = {}
               THEN Cardinality(passes) = 1 /\ ls[Len(ls)] = PassLine
               ELSE passes = {}

C13_Witness ==
    /\ ValidRun
    /\ cfg.file_output = NoneVal
    /\ exitcode = 0
    /\ LET nodes == src.doc.nodes
           top == FirstWidget(nodes)
       IN  /\ top > 1
           /\ \E e \in CollectedOf(nodes) :
                 /\ e > top
                 /\ nodes[e].tag = "widget"
                 /\ nodes[e].class = nodes[top].class
                 /\ nodes[e].depth > nodes[top].depth
                 /\ \E k \in 1..Len(stdout) :
                       stdout[k] = MemberLine(nodes[e].name, nodes[e].class)
           /\ nodes[top].class \in ImportedNames(stdout)

====
